---- MODULE Spec2Model ----
(***************************************************************************)
(* A model of the simulation core of snake.js: Level (grid, actors, the   *)
(* win/loss state machine, obstacleAt, actorAt, animate, playerTouched)   *)
(* and the actors Player, Lava and Coin.                                   *)
(*                                                                         *)
(* Numbers.  The program computes with JavaScript numbers; the model uses *)
(* exact fixed-point integers:                                             *)
(*   time      in 1/100 second          (maxStep 0.05 s  = 5)              *)
(*   length    in 1/1000 grid square    (one square      = Cell = 1000)    *)
(*   velocity  in 1/10 square/second    (playerXSpeed 7  = 70)             *)
(* so that velocity * time is a length with no rounding.  Binary floating *)
(* point rounding of the program is not modelled.                          *)
(*                                                                         *)
(* null / undefined are modelled by Null (the empty tuple); a number or a *)
(* Vector that may be null is wrapped in a one-element tuple.              *)
(***************************************************************************)
EXTENDS Integers, Sequences, FiniteSets, TLC

VARIABLES
  width, height, grid,   \* Level.width, Level.height, Level.grid
  actors,                \* Level.actors: sequence of actor ids (object identities)
  player,                \* Level.player: id of the Player object
  status,                \* Level.status: "null", "won" or "lost"
  finishDelay,           \* Level.finishDelay: Null or <<n>>
  obj,                   \* the actor objects, by id: fields pos, size, speed, ...
  pc,                    \* position inside animate: "idle", "forEach", "moveY", "touch"
  step,                  \* animate's local `step` (time still to simulate)
  thisStep,              \* animate's local `thisStep`
  keys,                  \* the `keys` argument of the running animate call
  iter,                  \* the array forEach iterates (this.actors when forEach began)
  idx,                   \* forEach's index into iter (1-based)
  frames,                \* number of animate calls made so far
  touched,               \* the playerTouched call the last step made: Null or <<type, actor>>
  elapsed,               \* sum of the deltaTime of the animate calls begun with status set
  query,                 \* a direct call of obstacleAt / actorAt and what it returned
  deltaArg,              \* the deltaTime argument of the last animate call
  subSteps,              \* the values thisStep took in the last animate call, in order
  acted,                 \* the act calls of the last sub-step: actor and whether it
                         \* was in Level.actors when act was called
  written,               \* the fields of existing Vector objects the last step
                         \* assigned to (`this.speed.x = ...`), as "speed.x" etc.
  running,               \* runLevel's `running`: "yes", "pausing" or "no"
  rafLoops,              \* one entry per live runAnimation loop: is its lastTime set
  escListener,           \* handleEscKey is registered for keydown
  arrowsListener,        \* the handler of trackKeys(arrowCodes) is registered
  displayed,             \* the Display exists and has not been cleared
  andThenCalls,          \* the arguments andThen was called with, in order
  inFrame,               \* index in rafLoops of the loop whose frame runs animation, or 0
  event,                 \* the last browser event delivered: "none", "frame" or "esc"
  levelN,                \* runGame: the n of the last startLevel(n, lives) call
  lives,                 \* runGame: its lives argument, Null when undefined
  started                \* runGame: number of startLevel calls made

vars == <<width, height, grid, actors, player, status, finishDelay, obj,
          pc, step, thisStep, keys, iter, idx, frames, touched, elapsed, query,
          deltaArg, subSteps, acted, written, running, rafLoops, escListener,
          arrowsListener, displayed, andThenCalls, inFrame, event,
          levelN, lives, started>>

\* the level object and the animate call in progress
levelVars == <<width, height, grid, actors, player, status, finishDelay, obj,
               pc, step, thisStep, keys, iter, idx, frames, touched, elapsed,
               deltaArg, subSteps, acted, written>>

\* the state of runLevel and runAnimation
loopVars == <<running, rafLoops, escListener, arrowsListener, displayed,
              andThenCalls, inFrame, event>>

\* the state of runGame
gameVars == <<levelN, lives, started>>

-----------------------------------------------------------------------------
(* Representation of numbers and of null *)

Null == <<>>

Some(v) == <<v>>

Val(w) == w[1]

Cell == 1000

TimeUnit == 100

Vector(x, y) == [x |-> x, y |-> y]

\* Vector.prototype.plus
plus(a, b) == Vector(a.x + b.x, a.y + b.y)

\* Vector.prototype.times, for a factor that is a time in 1/100 s applied to a
\* velocity in 1/10 square/s: the product is a length in 1/1000 square.
times(a, factor) == Vector(a.x * factor, a.y * factor)

\* Math.floor and Math.ceil of a length, in whole squares
Floor(v) == v \div Cell

Ceil(v) == -((-v) \div Cell)

Min(a, b) == IF a < b THEN a ELSE b

-----------------------------------------------------------------------------
(* Level plans.  A plan is a sequence of rows, a row a sequence of characters. *)

Plans == <<
  \* 1: a floor, two coins, a lava pit, and lava bouncing over an open bottom
  << <<" ", " ", " ", " ", " ">>,
     <<"@", "o", " ", "o", "|">>,
     <<"x", "x", "x", "!", " ">> >>,
  \* 2: one coin, fixed lava directly below the player
  << <<" ", " ", " ">>,
     <<"o", "@", " ">>,
     <<"!", "!", "x">> >>,
  \* 3: dripping and bouncing lava, fixed lava beside the player, one coin
  << <<"v", " ", " ", "=", " ">>,
     <<" ", "@", "!", "o", " ">>,
     <<"x", "x", "x", "x", "x">> >>
>>

-----------------------------------------------------------------------------
(* Actor constructors.  An actor object is a record; a field the            *)
(* constructor does not set is Null.                                        *)

\* actorChars: the characters that construct an actor
actorChars == {"@", "o", "=", "|", "v"}

\* function Player(pos)
Player(pos) ==
  [type |-> "player", ch |-> "@",
   pos |-> plus(pos, Vector(0, -(Cell \div 2))),
   size |-> Vector((8 * Cell) \div 10, (15 * Cell) \div 10),
   speed |-> Vector(0, 0),
   repeatPos |-> Null, basePos |-> Null]

\* function Lava(pos, ch); velocities in 1/10 square/s
Lava(pos, ch) ==
  [type |-> "lava", ch |-> ch,
   pos |-> pos,
   size |-> Vector(Cell, Cell),
   speed |-> IF ch = "=" THEN Vector(20, 0)
             ELSE IF ch = "|" THEN Vector(0, 20)
             ELSE Vector(0, 30),
   repeatPos |-> IF ch = "v" THEN Some(pos) ELSE Null,
   basePos |-> Null]

\* function Coin(pos); the random wobble phase is not stored: see CoinAct
Coin(pos) ==
  [type |-> "coin", ch |-> "o",
   pos |-> plus(pos, Vector((2 * Cell) \div 10, Cell \div 10)),
   size |-> Vector((6 * Cell) \div 10, (6 * Cell) \div 10),
   speed |-> Null,
   repeatPos |-> Null,
   basePos |-> Some(plus(pos, Vector((2 * Cell) \div 10, Cell \div 10)))]

\* new Actor(new Vector(x, y), ch) for Actor = actorChars[ch]
NewActor(ch, x, y) ==
  IF ch = "@" THEN Player(Vector(x * Cell, y * Cell))
  ELSE IF ch = "o" THEN Coin(Vector(x * Cell, y * Cell))
  ELSE Lava(Vector(x * Cell, y * Cell), ch)

-----------------------------------------------------------------------------
(* function Level(plan) *)

\* plan[y][x] with 0-based x, y; a missing character is undefined
CharAt(plan, x, y) ==
  IF x < Len(plan[y + 1]) THEN plan[y + 1][x + 1] ELSE "undefined"

LevelWidth(plan) == Len(plan[1])

LevelHeight(plan) == Len(plan)

\* the fieldType pushed for one character
FieldType(ch) ==
  IF ch \in actorChars THEN "null"
  ELSE IF ch = "x" THEN "wall"
  ELSE IF ch = "!" THEN "lava"
  ELSE "null"

LevelGrid(plan) ==
  [y \in 1..LevelHeight(plan) |->
     [x \in 1..LevelWidth(plan) |-> FieldType(CharAt(plan, x - 1, y - 1))]]

\* (mutant) a scan with the loops nested the other way round: x outside
RECURSIVE ActorsFromColumnMajor(_, _)
ActorsFromColumnMajor(plan, k) ==
  LET h == LevelHeight(plan)
      x == k \div h
      y == k % h
  IN IF k >= LevelWidth(plan) * h THEN <<>>
     ELSE IF CharAt(plan, x, y) \in actorChars
          THEN <<NewActor(CharAt(plan, x, y), x, y)>> \o ActorsFromColumnMajor(plan, k + 1)
          ELSE ActorsFromColumnMajor(plan, k + 1)

\* the actor objects pushed while scanning cells k, k+1, ... in row-major order
RECURSIVE ActorsFrom(_, _)
ActorsFrom(plan, k) ==
  LET w == LevelWidth(plan)
      x == k % w
      y == k \div w
  IN IF k >= w * LevelHeight(plan) THEN <<>>
     ELSE IF CharAt(plan, x, y) \in actorChars
          THEN <<NewActor(CharAt(plan, x, y), x, y)>> \o ActorsFrom(plan, k + 1)
          ELSE ActorsFrom(plan, k + 1)

LevelActors(plan) == ActorsFrom(plan, 0)

\* this.actors.filter(type == "player")[0]; 0 stands for undefined
LevelPlayer(objs) ==
  LET ps == {i \in 1..Len(objs) : objs[i].type = "player"}
  IN IF ps = {} THEN 0 ELSE CHOOSE i \in ps : \A j \in ps : i <= j

-----------------------------------------------------------------------------
(* Level.prototype.isFinished *)

\* (mutant) finished as soon as the delay has run out
isFinishedAtZero == status # "null" /\ Val(finishDelay) <= 0

isFinished == status # "null" /\ Val(finishDelay) < 0

-----------------------------------------------------------------------------
(* Level.prototype.obstacleAt *)

\* this.grid[y][x] with 0-based x, y; a read outside the grid is "outside"
fieldAt(x, y) ==
  IF y >= 0 /\ y < height /\ x >= 0 /\ x < width
  THEN grid[y + 1][x + 1] ELSE "outside"

\* (mutant) the loops nested the other way round: x outside, y inside
RECURSIVE scanFromColumnMajor(_, _, _, _, _, _)
scanFromColumnMajor(x, y, xStart, xEnd, yEnd, reads) ==
  LET yStart == IF reads = <<>> THEN y ELSE reads[1][2]
  IN IF x >= xEnd \/ yStart >= yEnd THEN [result |-> "none", reads |-> reads]
     ELSE IF y >= yEnd
          THEN scanFromColumnMajor(x + 1, yStart, xStart, xEnd, yEnd, reads)
     ELSE IF fieldAt(x, y) # "null"
          THEN [result |-> fieldAt(x, y), reads |-> Append(reads, <<x, y>>)]
          ELSE scanFromColumnMajor(x, y + 1, xStart, xEnd, yEnd,
                                   Append(reads, <<x, y>>))

\* the nested for loops from cell <<x, y>> on, with the cells read so far:
\* [result, reads]; result "none" stands for the undefined the loops fall out with
RECURSIVE scanFrom(_, _, _, _, _, _)
scanFrom(x, y, xStart, xEnd, yEnd, reads) ==
  IF y >= yEnd THEN [result |-> "none", reads |-> reads]
  ELSE IF x >= xEnd THEN scanFrom(xStart, y + 1, xStart, xEnd, yEnd, reads)
  ELSE IF fieldAt(x, y) # "null"
       THEN [result |-> fieldAt(x, y), reads |-> Append(reads, <<x, y>>)]
       ELSE scanFrom(x + 1, y, xStart, xEnd, yEnd, Append(reads, <<x, y>>))

\* (mutant) the bottom is tested before the sides and the top
obstacleScanBottomFirst(pos, size) ==
  LET xStart == Floor(pos.x)
      xEnd == Ceil(pos.x + size.x)
      yStart == Floor(pos.y)
      yEnd == Ceil(pos.y + size.y)
  IN IF yEnd > height
     THEN [result |-> "lava", reads |-> <<>>]
     ELSE IF xStart < 0 \/ xEnd > width \/ yStart < 0
     THEN [result |-> "wall", reads |-> <<>>]
     ELSE scanFrom(xStart, yStart, xStart, xEnd, yEnd, <<>>)

\* obstacleAt together with the grid cells it read
obstacleScan(pos, size) ==
  LET xStart == Floor(pos.x)
      xEnd == Ceil(pos.x + size.x)
      yStart == Floor(pos.y)
      yEnd == Ceil(pos.y + size.y)
  IN IF xStart < 0 \/ xEnd > width \/ yStart < 0
     THEN [result |-> "wall", reads |-> <<>>]
     ELSE IF yEnd > height
     THEN [result |-> "lava", reads |-> <<>>]
     ELSE scanFrom(xStart, yStart, xStart, xEnd, yEnd, <<>>)

obstacleAt(pos, size) == obstacleScan(pos, size).result

-----------------------------------------------------------------------------
(* Level.prototype.actorAt; 0 stands for undefined *)

\* (mutant) boxes that touch count as overlapping
overlapsOrTouches(a, b) ==
  /\ a.pos.x + a.size.x >= b.pos.x
  /\ a.pos.x <= b.pos.x + b.size.x
  /\ a.pos.y + a.size.y >= b.pos.y
  /\ a.pos.y <= b.pos.y + b.size.y

overlaps(a, b) ==
  /\ a.pos.x + a.size.x > b.pos.x
  /\ a.pos.x < b.pos.x + b.size.x
  /\ a.pos.y + a.size.y > b.pos.y
  /\ a.pos.y < b.pos.y + b.size.y

actorAtIn(list, objs, actor) ==
  LET hits == {i \in 1..Len(list) :
                 list[i] # actor /\ overlaps(objs[actor], objs[list[i]])}
  IN IF hits = {} THEN 0
     ELSE list[CHOOSE i \in hits : \A j \in hits : i <= j]

actorAt(actor) == actorAtIn(actors, obj, actor)

-----------------------------------------------------------------------------
(* Level.prototype.playerTouched(type, actor): sets status', finishDelay', *)
(* actors' and records the call in touched'                                *)

\* (mutant) removal by moving the last element into the removed slot
withoutSwapRemove(list, actor) ==
  IF \E k \in 1..Len(list) : list[k] = actor
  THEN LET k == CHOOSE k \in 1..Len(list) : list[k] = actor
       IN SubSeq([list EXCEPT ![k] = list[Len(list)]], 1, Len(list) - 1)
  ELSE list

\* this.actors.filter(other != actor)
without(list, actor) == SelectSeq(list, LAMBDA other : other # actor)

\* this.actors.some(type == "coin")
someCoin(list) == \E i \in 1..Len(list) : obj[list[i]].type = "coin"

\* (mutant) every collected coin wins the level
playerTouchedAnyCoinWins(type, actor) ==
  /\ touched' = <<type, actor>>
  /\ IF type = "lava" /\ status = "null"
     THEN /\ status' = "lost"
          /\ finishDelay' = Some(TimeUnit)
          /\ actors' = actors
     ELSE IF type = "coin"
     THEN /\ actors' = without(actors, actor)
          /\ status' = "won"
          /\ finishDelay' = Some(TimeUnit)
     ELSE UNCHANGED <<status, finishDelay, actors>>

\* (mutant) any obstacle that is not a coin kills
playerTouchedWallKills(type, actor) ==
  /\ touched' = <<type, actor>>
  /\ IF type # "coin" /\ status = "null"
     THEN /\ status' = "lost"
          /\ finishDelay' = Some(TimeUnit)
          /\ actors' = actors
     ELSE IF type = "coin"
     THEN /\ actors' = without(actors, actor)
          /\ IF ~someCoin(without(actors, actor))
             THEN /\ status' = "won"
                  /\ finishDelay' = Some(TimeUnit)
             ELSE UNCHANGED <<status, finishDelay>>
     ELSE UNCHANGED <<status, finishDelay, actors>>

\* (mutant) lava restarts the countdown whatever the status
playerTouchedNoStatusCheck(type, actor) ==
  /\ touched' = <<type, actor>>
  /\ IF type = "lava"
     THEN /\ status' = "lost"
          /\ finishDelay' = Some(TimeUnit)
          /\ actors' = actors
     ELSE IF type = "coin"
     THEN /\ actors' = without(actors, actor)
          /\ IF ~someCoin(without(actors, actor))
             THEN /\ status' = "won"
                  /\ finishDelay' = Some(TimeUnit)
             ELSE UNCHANGED <<status, finishDelay>>
     ELSE UNCHANGED <<status, finishDelay, actors>>

\* (mutant) playerTouched where touching lava ends the level as won
playerTouchedLavaWins(type, actor) ==
  /\ touched' = <<type, actor>>
  /\ IF type = "lava" /\ status = "null"
     THEN /\ status' = "won"
          /\ finishDelay' = Some(TimeUnit)
          /\ actors' = actors
     ELSE IF type = "coin"
     THEN /\ actors' = without(actors, actor)
          /\ IF ~someCoin(without(actors, actor))
             THEN /\ status' = "won"
                  /\ finishDelay' = Some(TimeUnit)
             ELSE UNCHANGED <<status, finishDelay>>
     ELSE UNCHANGED <<status, finishDelay, actors>>

playerTouched(type, actor) ==
  /\ touched' = <<type, actor>>
  /\ IF type = "lava" /\ status = "null"
     THEN /\ status' = "lost"
          /\ finishDelay' = Some(TimeUnit)
          /\ actors' = actors
     ELSE IF type = "coin"
     THEN /\ actors' = without(actors, actor)
          /\ IF ~someCoin(without(actors, actor))
             THEN /\ status' = "won"
                  /\ finishDelay' = Some(TimeUnit)
             ELSE UNCHANGED <<status, finishDelay>>
     ELSE UNCHANGED <<status, finishDelay, actors>>

\* a step that makes no playerTouched call
noTouch ==
  /\ touched' = Null
  /\ UNCHANGED <<status, finishDelay, actors>>

-----------------------------------------------------------------------------
(* Bounds and inputs of the model *)

\* animate calls per behaviour
MaxFrames == 3

\* the deltaTime arguments tried, in 1/100 s
DeltaTimes == {0, 7, 100}

\* the keys objects tried
Keys(l, r, u) == [left |-> l, right |-> r, up |-> u]

KeyStates ==
  {Keys(FALSE, FALSE, FALSE), Keys(TRUE, FALSE, FALSE), Keys(FALSE, TRUE, FALSE),
   Keys(FALSE, FALSE, TRUE), Keys(FALSE, TRUE, TRUE), Keys(TRUE, TRUE, FALSE)}

\* the values sin(wobble) * wobbleDist is sampled at
wobbleDist == 70

WobbleOffsets == {-wobbleDist, wobbleDist}

maxStep == 5

playerXSpeed == 70

\* speed.y gained per 1/100 s, in 1/10 square/s: 30 squares/s^2
gravity == 3

jumpSpeed == 170

-----------------------------------------------------------------------------
(* The state after new Level(plan) *)

InitLevel(plan) ==
  LET objs == LevelActors(plan)
  IN /\ width = LevelWidth(plan)
     /\ height = LevelHeight(plan)
     /\ grid = LevelGrid(plan)
     /\ obj = [i \in 1..Len(objs) |-> objs[i]]
     /\ actors = [i \in 1..Len(objs) |-> i]
     /\ player = LevelPlayer(objs)
     /\ status = "null"
     /\ finishDelay = Null

NoKeys == Keys(FALSE, FALSE, FALSE)

\* no direct call of obstacleAt or actorAt has been made
NoQuery == [op |-> "none"]

\* no animate call has been made
InitAnimate ==
  /\ pc = "idle"
  /\ step = 0
  /\ thisStep = 0
  /\ keys = NoKeys
  /\ iter = <<>>
  /\ idx = 0
  /\ frames = 0
  /\ touched = Null
  /\ elapsed = 0
  /\ deltaArg = 0
  /\ subSteps = <<>>
  /\ acted = <<>>
  /\ written = {}

\* runLevel has returned: the display is built, both key handlers are
\* registered and runAnimation has requested the first frame of its loop
InitRunLevel ==
  /\ running = "yes"
  /\ rafLoops = <<FALSE>>
  /\ escListener = TRUE
  /\ arrowsListener = TRUE
  /\ displayed = TRUE
  /\ andThenCalls = <<>>
  /\ inFrame = 0
  /\ event = "none"

\* startLevel(n, lives) has been called once for plan number p (n = p - 1)
InitStartLevel(p, l) ==
  /\ levelN = p - 1
  /\ lives = l
  /\ started = 1

Init ==
  /\ \E p \in 1..Len(Plans) : InitLevel(Plans[p]) /\ InitStartLevel(p, Some(3))
  /\ InitAnimate
  /\ InitRunLevel
  /\ query = NoQuery

-----------------------------------------------------------------------------
(* Level.prototype.animate *)

\* (mutant) the head of a while loop that always takes a full maxStep
whileLoopFullSteps(remaining, ks) ==
  /\ step' = remaining
  /\ IF remaining > 0
     THEN /\ thisStep' = maxStep
          /\ iter' = actors'
          /\ idx' = 1
          /\ pc' = "forEach"
          /\ keys' = ks
     ELSE /\ thisStep' = 0
          /\ keys' = NoKeys
          /\ iter' = <<>>
          /\ idx' = 0
          /\ pc' = "idle"

\* the head of the while loop, entered with `remaining` left to simulate
whileLoop(remaining, ks) ==
  /\ step' = remaining
  /\ IF remaining > 0
     THEN /\ thisStep' = Min(remaining, maxStep)
          /\ iter' = actors'
          /\ idx' = 1
          /\ pc' = "forEach"
          /\ keys' = ks
     ELSE /\ thisStep' = 0
          /\ keys' = NoKeys
          /\ iter' = <<>>
          /\ idx' = 0
          /\ pc' = "idle"

\* record: the sub-step the loop head has just begun, if it began one
logSubStep(sofar) ==
  subSteps' = IF pc' = "forEach" THEN Append(sofar, thisStep') ELSE sofar

\* record: act is called on `actor`; the first call of a sub-step starts over
logAct(actor) ==
  acted' = (IF idx = 1 THEN <<>> ELSE acted)
             \o <<[actor |-> actor,
                   live |-> \E i \in 1..Len(actors) : actors[i] = actor]>>

\* (mutant) a forEach that follows this.actors as playerTouched replaces it
nextActorOverLiveArray ==
  IF idx < Len(actors')
  THEN /\ idx' = idx + 1
       /\ iter' = actors'
       /\ pc' = "forEach"
       /\ UNCHANGED <<step, thisStep, keys, subSteps>>
  ELSE /\ whileLoop(step - thisStep, keys)
       /\ logSubStep(subSteps)

\* forEach's callback returned: the next actor, or step -= thisStep and loop
nextActor ==
  IF idx < Len(iter)
  THEN /\ idx' = idx + 1
       /\ pc' = "forEach"
       /\ UNCHANGED <<step, thisStep, iter, keys, subSteps>>
  ELSE /\ whileLoop(step - thisStep, keys)
       /\ logSubStep(subSteps)

\* Level.prototype.animate, up to the first actor of the first sub-step
animate(deltaTime, ks) ==
  /\ frames' = frames + 1
  /\ finishDelay' = IF status # "null"
                    THEN Some(Val(finishDelay) - deltaTime)
                    ELSE finishDelay
  /\ elapsed' = IF status # "null" THEN elapsed + deltaTime ELSE elapsed
  /\ touched' = Null
  /\ deltaArg' = deltaTime
  /\ acted' = <<>>
  /\ written' = {}
  /\ UNCHANGED <<status, actors, obj>>
  /\ whileLoop(deltaTime, ks)
  /\ logSubStep(<<>>)
  /\ UNCHANGED <<width, height, grid, player, query>>

\* an animate call on a level that is not finished, as runLevel makes them
Animate(deltaTime, ks) ==
  /\ pc = "idle"
  /\ ~isFinished
  /\ frames < MaxFrames
  /\ animate(deltaTime, ks)
  /\ UNCHANGED <<loopVars, gameVars>>

-----------------------------------------------------------------------------
(* Player *)

\* (mutant) the arrow keys swapped: right moves the player to the left
speedXForSwapped(ks) ==
  (IF ks.left THEN playerXSpeed ELSE 0) - (IF ks.right THEN playerXSpeed ELSE 0)

\* moveX: this.speed.x after the two `if (keys...)` lines
speedXFor(ks) ==
  (IF ks.right THEN playerXSpeed ELSE 0) - (IF ks.left THEN playerXSpeed ELSE 0)

\* moveX: newPos = this.pos.plus(new Vector(this.speed.x * step, 0))
newPosX(me) == plus(obj[me].pos, Vector(speedXFor(keys) * thisStep, 0))

\* moveY: this.speed.y after `this.speed.y += step * gravity`
speedYFor(me) == obj[me].speed.y + thisStep * gravity

\* moveY: newPos = this.pos.plus(new Vector(0, this.speed.y * step))
newPosY(me) == plus(obj[me].pos, Vector(0, speedYFor(me) * thisStep))

\* (mutant) moveX that reports the obstacle and moves into it all the same
moveXThroughObstacle(me) ==
  LET this == obj[me]
      speedX == speedXFor(keys)
      newPos == newPosX(me)
      obstacle == obstacleAt(newPos, this.size)
  IN /\ IF obstacle # "none" THEN playerTouched(obstacle, 0) ELSE noTouch
     /\ obj' = [obj EXCEPT ![me].speed.x = speedX, ![me].pos = newPos]
     /\ written' = {"speed.x"}

\* Player.prototype.moveX
moveX(me) ==
  LET this == obj[me]
      speedX == speedXFor(keys)
      newPos == newPosX(me)
      obstacle == obstacleAt(newPos, this.size)
  IN /\ IF obstacle # "none"
        THEN /\ playerTouched(obstacle, 0)
             /\ obj' = [obj EXCEPT ![me].speed.x = speedX]
        ELSE /\ noTouch
             /\ obj' = [obj EXCEPT ![me].speed.x = speedX, ![me].pos = newPos]
     /\ written' = {"speed.x"}

\* (mutant) moveY that jumps whenever up is held on an obstructed step
moveYJumpsOnAnyObstacle(me) ==
  LET this == obj[me]
      speedY == speedYFor(me)
      newPos == newPosY(me)
      obstacle == obstacleAt(newPos, this.size)
  IN /\ IF obstacle # "none"
        THEN /\ playerTouched(obstacle, 0)
             /\ obj' = [obj EXCEPT ![me].speed.y = IF keys.up THEN -jumpSpeed ELSE 0]
        ELSE /\ noTouch
             /\ obj' = [obj EXCEPT ![me].speed.y = speedY, ![me].pos = newPos]
     /\ written' = {"speed.y"}

\* Player.prototype.moveY
moveY(me) ==
  LET this == obj[me]
      speedY == speedYFor(me)
      newPos == newPosY(me)
      obstacle == obstacleAt(newPos, this.size)
  IN /\ IF obstacle # "none"
        THEN /\ playerTouched(obstacle, 0)
             /\ obj' = [obj EXCEPT ![me].speed.y =
                          IF keys.up /\ speedY > 0 THEN -jumpSpeed ELSE 0]
        ELSE /\ noTouch
             /\ obj' = [obj EXCEPT ![me].speed.y = speedY, ![me].pos = newPos]
     /\ written' = {"speed.y"}

\* Player.prototype.act after moveX and moveY: actorAt, playerTouched and the
\* losing animation (thisStep seconds is thisStep * Cell / TimeUnit of a square)
touchAndShrink(me) ==
  LET otherActor == actorAt(me)
      shrink == thisStep * (Cell \div TimeUnit)
  IN /\ IF otherActor # 0
        THEN playerTouched(obj[otherActor].type, otherActor)
        ELSE noTouch
     /\ obj' = IF status' = "lost"
               THEN [obj EXCEPT ![me].pos.y = @ + shrink, ![me].size.y = @ - shrink]
               ELSE obj
     /\ written' = IF status' = "lost" THEN {"pos.y", "size.y"} ELSE {}

PlayerMoveX ==
  /\ pc = "forEach"
  /\ obj[iter[idx]].type = "player"
  /\ moveX(iter[idx])
  /\ logAct(iter[idx])
  /\ pc' = "moveY"
  /\ UNCHANGED <<step, thisStep, iter, idx, keys, frames, elapsed, deltaArg, subSteps>>
  /\ UNCHANGED <<width, height, grid, player, query, loopVars, gameVars>>

PlayerMoveY ==
  /\ pc = "moveY"
  /\ moveY(iter[idx])
  /\ pc' = "touch"
  /\ UNCHANGED <<step, thisStep, iter, idx, keys, frames, elapsed, deltaArg, subSteps,
                 acted>>
  /\ UNCHANGED <<width, height, grid, player, query, loopVars, gameVars>>

PlayerTouch ==
  /\ pc = "touch"
  /\ touchAndShrink(iter[idx])
  /\ nextActor
  /\ UNCHANGED <<frames, elapsed, deltaArg, acted>>
  /\ UNCHANGED <<width, height, grid, player, query, loopVars, gameVars>>

-----------------------------------------------------------------------------
(* Lava.prototype.act *)

\* (mutant) dripping lava that is reset and has its speed negated as well
lavaActResetAndBounce(me) ==
  LET this == obj[me]
      newPos == plus(this.pos, times(this.speed, thisStep))
  IN obj' = IF obstacleAt(newPos, this.size) = "none"
            THEN [obj EXCEPT ![me].pos = newPos]
            ELSE IF this.repeatPos # Null
            THEN [obj EXCEPT ![me].pos = Val(this.repeatPos),
                             ![me].speed = times(this.speed, -1)]
            ELSE [obj EXCEPT ![me].speed = times(this.speed, -1)]

lavaAct(me) ==
  LET this == obj[me]
      newPos == plus(this.pos, times(this.speed, thisStep))
  IN obj' = IF obstacleAt(newPos, this.size) = "none"
            THEN [obj EXCEPT ![me].pos = newPos]
            ELSE IF this.repeatPos # Null
            THEN [obj EXCEPT ![me].pos = Val(this.repeatPos)]
            ELSE [obj EXCEPT ![me].speed = times(this.speed, -1)]

LavaAct ==
  /\ pc = "forEach"
  /\ obj[iter[idx]].type = "lava"
  /\ lavaAct(iter[idx])
  /\ written' = {}
  /\ noTouch
  /\ logAct(iter[idx])
  /\ nextActor
  /\ UNCHANGED <<frames, elapsed, deltaArg>>
  /\ UNCHANGED <<width, height, grid, player, query, loopVars, gameVars>>

-----------------------------------------------------------------------------
(* Coin.prototype.act.  wobble starts at a random phase and Math.sin is not *)
(* computed: the new offset sin(wobble) * wobbleDist is any of the sampled  *)
(* values of [-wobbleDist, wobbleDist].                                     *)

coinAct(me, wobblePos) ==
  obj' = [obj EXCEPT ![me].pos = plus(Val(obj[me].basePos), Vector(0, wobblePos))]

CoinAct ==
  /\ pc = "forEach"
  /\ obj[iter[idx]].type = "coin"
  /\ \E wobblePos \in WobbleOffsets : coinAct(iter[idx], wobblePos)
  /\ written' = {}
  /\ noTouch
  /\ logAct(iter[idx])
  /\ nextActor
  /\ UNCHANGED <<frames, elapsed, deltaArg>>
  /\ UNCHANGED <<width, height, grid, player, query, loopVars, gameVars>>

-----------------------------------------------------------------------------

Next ==
  \/ \E deltaTime \in DeltaTimes, ks \in KeyStates : Animate(deltaTime, ks)
  \/ PlayerMoveX
  \/ PlayerMoveY
  \/ PlayerTouch
  \/ LavaAct
  \/ CoinAct

Spec == Init /\ [][Next]_vars

-----------------------------------------------------------------------------
(* Direct calls of animate with any deltaTime: positive, zero and negative. *)
(* animate runs to completion (JavaScript runs a call without interleaving  *)
(* other callbacks), hence the weak fairness of the steps inside a call.    *)

\* animate calls per behaviour
MaxAnimateCalls == 1

\* the deltaTime arguments tried, in 1/100 s
AnimateDeltas == {-7, 0, 2, 5, 7, 10, 13}

AnimateAny(deltaTime, ks) ==
  /\ pc = "idle"
  /\ frames < MaxAnimateCalls
  /\ animate(deltaTime, ks)
  /\ UNCHANGED <<loopVars, gameVars>>

\* a step of the animate call in progress
actStep == PlayerMoveX \/ PlayerMoveY \/ PlayerTouch \/ LavaAct \/ CoinAct

NextAnimate ==
  \/ \E deltaTime \in AnimateDeltas, ks \in KeyStates : AnimateAny(deltaTime, ks)
  \/ PlayerMoveX
  \/ PlayerMoveY
  \/ PlayerTouch
  \/ LavaAct
  \/ CoinAct

SpecAnimate == Init /\ [][NextAnimate]_vars /\ WF_vars(actStep)

-----------------------------------------------------------------------------
(* runGame.  startLevel builds a Level from plans[n] and hands it to        *)
(* runLevel with a callback; the callback is called with the level's status *)
(* when the level is finished.  Here the play of a level is one step that   *)
(* leaves the level as animate leaves it when isFinished first holds.       *)

\* startLevel calls per behaviour
MaxStarts == 10

\* frame of loop i returns without requestAnimationFrame: the loop is over
stopLoop(loops, i) == SubSeq(loops, 1, i - 1) \o SubSeq(loops, i + 1, Len(loops))

\* new Level(plan)
newLevel(plan) ==
  LET objs == LevelActors(plan)
  IN /\ width' = LevelWidth(plan)
     /\ height' = LevelHeight(plan)
     /\ grid' = LevelGrid(plan)
     /\ obj' = [i \in 1..Len(objs) |-> objs[i]]
     /\ actors' = [i \in 1..Len(objs) |-> i]
     /\ player' = LevelPlayer(objs)
     /\ status' = "null"
     /\ finishDelay' = Null

\* runLevel(level, Display, andThen) up to its return
runLevel ==
  /\ running' = "yes"
  /\ rafLoops' = <<FALSE>>
  /\ escListener' = TRUE
  /\ arrowsListener' = TRUE
  /\ displayed' = TRUE
  /\ andThenCalls' = <<>>
  /\ inFrame' = 0
  /\ pc' = "idle"
  /\ step' = 0
  /\ thisStep' = 0
  /\ keys' = NoKeys
  /\ iter' = <<>>
  /\ idx' = 0
  /\ frames' = 0
  /\ touched' = Null
  /\ elapsed' = 0
  /\ deltaArg' = 0
  /\ subSteps' = <<>>
  /\ acted' = <<>>
  /\ written' = {}

\* startLevel(n, lives); plans[n] is Plans[n + 1]
startLevel(n, l) ==
  /\ newLevel(Plans[n + 1])
  /\ runLevel
  /\ levelN' = n
  /\ lives' = l
  /\ started' = started + 1

\* animation's isFinished branch around the andThen call: display.clear(),
\* the two handlers removed, `return false` ends the loop
finishRunLevel(st) ==
  /\ displayed' = FALSE
  /\ escListener' = FALSE
  /\ arrowsListener' = FALSE
  /\ andThenCalls' = Append(andThenCalls, st)
  /\ rafLoops' = stopLoop(rafLoops, inFrame)
  /\ inFrame' = 0
  /\ UNCHANGED running

\* (mutant) a callback that starts over at level 0 after the last level
andThenWrapsAround(st) ==
  IF st = "lost"
  THEN IF lives # Null /\ Val(lives) > 0
       THEN startLevel(levelN, Some(Val(lives) - 1))
       ELSE startLevel(0, Some(3))
  ELSE IF levelN < Len(Plans) - 1
  THEN startLevel(levelN + 1, Null)
  ELSE startLevel(0, Null)

\* the function(status) that startLevel passes to runLevel.  startLevel(n + 1)
\* passes no second argument: lives is undefined (Null) in that call, and
\* `undefined > 0` is false
andThen(st) ==
  IF st = "lost"
  THEN IF lives # Null /\ Val(lives) > 0
       THEN startLevel(levelN, Some(Val(lives) - 1))
       ELSE startLevel(0, Some(3))
  ELSE IF levelN < Len(Plans) - 1
  THEN startLevel(levelN + 1, Null)
  ELSE /\ finishRunLevel(st)
       /\ UNCHANGED <<levelVars, gameVars>>

\* the level is played until it is finished with status st: status is set,
\* finishDelay has gone negative, and a won level has no coin left
LevelPlayed(st) ==
  /\ pc = "idle"
  /\ status = "null"
  /\ started <= MaxStarts
  /\ status' = st
  /\ finishDelay' = Some(-1)
  /\ actors' = IF st = "won"
               THEN SelectSeq(actors, LAMBDA a : obj[a].type # "coin")
               ELSE actors
  /\ frames' = frames + 1
  /\ rafLoops' = <<TRUE>>
  /\ inFrame' = 1
  /\ event' = "frame"
  /\ UNCHANGED <<width, height, grid, player, obj, pc, step, thisStep, keys, iter,
                 idx, touched, elapsed, deltaArg, subSteps, acted, written,
                 query>>
  /\ UNCHANGED <<running, escListener, arrowsListener, displayed, andThenCalls,
                 gameVars>>

\* the frame in which animation finds the level finished and calls andThen
LevelEnds ==
  /\ pc = "idle"
  /\ inFrame # 0
  /\ isFinished
  /\ andThenCalls = <<>>
  /\ andThen(status)
  /\ UNCHANGED <<event, query>>

NextRunGame ==
  \/ \E st \in {"won", "lost"} : LevelPlayed(st)
  \/ LevelEnds

InitRunGame ==
  /\ InitLevel(Plans[1])
  /\ InitStartLevel(1, Some(3))
  /\ InitAnimate
  /\ InitRunLevel
  /\ query = NoQuery

SpecRunGame == InitRunGame /\ [][NextRunGame]_vars

-----------------------------------------------------------------------------
(* runLevel and runAnimation on one level.  The browser delivers frame      *)
(* callbacks and keydown events one at a time; a callback runs to its end   *)
(* before the next event is delivered.  A live loop has one frame request   *)
(* pending.  Timestamps are not kept: a frame draws the gap time - lastTime *)
(* from FrameGaps, and of lastTime only whether it is set is kept.          *)

\* animate calls per behaviour
MaxLoopFrames == 13

\* time - lastTime, in milliseconds
FrameGaps == {20, 500}

\* the states of the arrow keys at a frame
LoopKeyStates == {Keys(FALSE, FALSE, FALSE), Keys(TRUE, FALSE, FALSE)}

\* the plans played: the player falls on the only coin, or stands in lava
LoopPlans ==
  << <<<<" ">>, <<"@">>, <<"o">>, <<"x">>>>,
     <<<<"=">>, <<"@">>, <<"!">>>> >>

\* (mutant) a frame step capped at one second instead of 100 milliseconds
timeStepCappedAtSecond(gap) == Min(gap, 1000) \div (1000 \div TimeUnit)

\* (mutant) a time step that is not capped
timeStepUncapped(gap) == gap \div (1000 \div TimeUnit)

\* frame: Math.min(time - lastTime, 100) / 1000 seconds, in 1/100 s
timeStep(gap) == Min(gap, 100) \div (1000 \div TimeUnit)

\* frame(time) of loop i while its lastTime is null: frameFunc is not called
FrameFirst(i) ==
  /\ pc = "idle"
  /\ inFrame = 0
  /\ ~rafLoops[i]
  /\ rafLoops' = [rafLoops EXCEPT ![i] = TRUE]
  /\ event' = "frame"
  /\ UNCHANGED <<levelVars, gameVars, query>>
  /\ UNCHANGED <<running, escListener, arrowsListener, displayed, andThenCalls, inFrame>>

\* frame(time) of loop i, animation with running == "pausing"
FramePause(i) ==
  /\ pc = "idle"
  /\ inFrame = 0
  /\ rafLoops[i]
  /\ running = "pausing"
  /\ running' = "no"
  /\ rafLoops' = stopLoop(rafLoops, i)
  /\ event' = "frame"
  /\ UNCHANGED <<levelVars, gameVars, query>>
  /\ UNCHANGED <<escListener, arrowsListener, displayed, andThenCalls, inFrame>>

\* frame(time) of loop i, animation up to the call level.animate(step, arrows)
FrameAnimate(i, gap, ks) ==
  /\ pc = "idle"
  /\ inFrame = 0
  /\ rafLoops[i]
  /\ running # "pausing"
  /\ frames < MaxLoopFrames
  /\ animate(timeStep(gap), ks)
  /\ inFrame' = i
  /\ event' = "frame"
  /\ UNCHANGED <<running, rafLoops, escListener, arrowsListener, displayed,
                 andThenCalls, gameVars>>

\* (mutant) an animation that does not return false when the level is over
FrameEndKeepsLooping ==
  /\ pc = "idle"
  /\ inFrame # 0
  /\ IF isFinished
     THEN /\ displayed' = FALSE
          /\ escListener' = FALSE
          /\ arrowsListener' = FALSE
          /\ andThenCalls' = Append(andThenCalls, status)
          /\ inFrame' = 0
          /\ UNCHANGED <<running, rafLoops>>
     ELSE /\ inFrame' = 0
          /\ UNCHANGED <<running, rafLoops, escListener, arrowsListener, displayed,
                         andThenCalls>>
  /\ UNCHANGED <<levelVars, gameVars, event, query>>

\* animation after level.animate returned: drawFrame, and the isFinished
\* branch with a callback that only records its argument
FrameEnd ==
  /\ pc = "idle"
  /\ inFrame # 0
  /\ IF isFinished
     THEN finishRunLevel(status)
     ELSE /\ inFrame' = 0
          /\ UNCHANGED <<running, rafLoops, escListener, arrowsListener, displayed,
                         andThenCalls>>
  /\ UNCHANGED <<levelVars, gameVars, event, query>>

\* (mutant) a handler in which a second ESC does not cancel the pending pause
handleEscKeyNoCancel ==
  IF running = "yes"
  THEN running' = "pausing" /\ UNCHANGED rafLoops
  ELSE IF running = "no"
  THEN running' = "yes" /\ rafLoops' = Append(rafLoops, FALSE)
  ELSE UNCHANGED <<running, rafLoops>>

\* (mutant) a handler that starts an animation when it cancels a pending pause
handleEscKeyCancelRestarts ==
  IF running = "yes"
  THEN running' = "pausing" /\ UNCHANGED rafLoops
  ELSE running' = "yes" /\ rafLoops' = Append(rafLoops, FALSE)

\* handleEscKey for keyCode 27; "resume" calls runAnimation(animation)
handleEscKey ==
  IF running = "yes"
  THEN running' = "pausing" /\ UNCHANGED rafLoops
  ELSE IF running = "no"
  THEN running' = "yes" /\ rafLoops' = Append(rafLoops, FALSE)
  ELSE running' = "yes" /\ UNCHANGED rafLoops

\* a keydown event of the ESC key, delivered between callbacks
EscKey ==
  /\ pc = "idle"
  /\ inFrame = 0
  /\ event' = "esc"
  /\ IF escListener THEN handleEscKey ELSE UNCHANGED <<running, rafLoops>>
  /\ UNCHANGED <<levelVars, gameVars, query>>
  /\ UNCHANGED <<escListener, arrowsListener, displayed, andThenCalls, inFrame>>

NextRunLevel ==
  \/ \E i \in 1..Len(rafLoops) : FrameFirst(i)
  \/ \E i \in 1..Len(rafLoops) : FramePause(i)
  \/ \E i \in 1..Len(rafLoops), gap \in FrameGaps, ks \in LoopKeyStates :
       FrameAnimate(i, gap, ks)
  \/ FrameEnd
  \/ EscKey
  \/ PlayerMoveX
  \/ PlayerMoveY
  \/ PlayerTouch
  \/ LavaAct
  \/ CoinAct

InitOneLevel ==
  /\ \E p \in 1..Len(LoopPlans) : InitLevel(LoopPlans[p]) /\ InitStartLevel(p, Some(3))
  /\ InitAnimate
  /\ InitRunLevel
  /\ query = NoQuery

SpecRunLevel == InitOneLevel /\ [][NextRunLevel]_vars

-----------------------------------------------------------------------------
(* animate on a tall level: a shaft of TallRows rows in which the player    *)
(* falls from row 1 towards a one-square wall at row TallWallRow.           *)

TallRows == 64

TallWallRow == 61

\* rows 0 .. TallRows - 1, one column: the player, the shaft, the wall, and
\* below the wall a coin and a lava block that moves up and down
TallPlan ==
  [r \in 1..TallRows |->
     IF r = 2 THEN <<"@">>
     ELSE IF r = TallWallRow + 1 THEN <<"x">>
     ELSE IF r = TallWallRow + 2 THEN <<"o">>
     ELSE IF r = TallWallRow + 3 THEN <<"|">>
     ELSE <<" ">>]

InitTall ==
  /\ InitLevel(TallPlan)
  /\ InitStartLevel(1, Some(3))
  /\ InitAnimate
  /\ InitRunLevel
  /\ query = NoQuery

SpecTall == InitTall /\ [][Next]_vars

-----------------------------------------------------------------------------
(* The losing animation with the rounding of its two assignments.  pos.y    *)
(* and size.y are IEEE doubles: `this.pos.y += step` and `this.size.y -=    *)
(* step` each round their result to the nearest double, so the bottom edge  *)
(* pos.y + size.y that obstacleAt computes afterwards need not be the one   *)
(* it was before (0.5 and 1.5 after three steps of 1/60 give                *)
(* 0.5500000000000002 + 1.4500000000000002 = 2.0000000000000004).  The size *)
(* of a rounding error is far below the length unit of the model; only its  *)
(* sign matters to Math.floor and Math.ceil, so an error is -Ulp, 0 or Ulp. *)

Ulp == 1

RoundOffs == {-Ulp, 0, Ulp}

\* Player.prototype.act after moveX and moveY, the two assignments rounded
touchAndShrinkRounded(me) ==
  LET otherActor == actorAt(me)
      shrink == thisStep * (Cell \div TimeUnit)
  IN /\ IF otherActor # 0
        THEN playerTouched(obj[otherActor].type, otherActor)
        ELSE noTouch
     /\ IF status' = "lost"
        THEN \E e1 \in RoundOffs, e2 \in RoundOffs :
               obj' = [obj EXCEPT ![me].pos.y = @ + shrink + e1,
                                  ![me].size.y = @ - shrink + e2]
        ELSE obj' = obj
     /\ written' = IF status' = "lost" THEN {"pos.y", "size.y"} ELSE {}

PlayerTouchRounded ==
  /\ pc = "touch"
  /\ touchAndShrinkRounded(iter[idx])
  /\ nextActor
  /\ UNCHANGED <<frames, elapsed, deltaArg, acted>>
  /\ UNCHANGED <<width, height, grid, player, query, loopVars, gameVars>>

\* a player standing on the floor at its spawn height, a lava block that
\* moves into it in the first sub-step, and a coin
RoundedPlan == <<<<" ", " ", " ">>,
                 <<"=", "@", "o">>,
                 <<"x", "x", "x">>>>

InitRounded ==
  /\ InitLevel(RoundedPlan)
  /\ InitStartLevel(1, Some(3))
  /\ InitAnimate
  /\ InitRunLevel
  /\ query = NoQuery

\* frames of about 1/60 s and of the longest sub-step
RoundedDeltas == {2, maxStep}

NextRounded ==
  \/ \E deltaTime \in RoundedDeltas, ks \in LoopKeyStates : Animate(deltaTime, ks)
  \/ PlayerMoveX
  \/ PlayerMoveY
  \/ PlayerTouchRounded
  \/ LavaAct
  \/ CoinAct

SpecRounded == InitRounded /\ [][NextRounded]_vars

-----------------------------------------------------------------------------
(* The scenario "hold right until the coin is collected": levels bordered   *)
(* by walls, one coin on the player's row to the right of it, only empty    *)
(* squares between them, no lava; animate is called with only the right key *)
(* held, as long as the level is not finished.  In the first plan the       *)
(* player stands on a floor with a free square above it; in the second the  *)
(* border is directly above the player's square; in the third the player's  *)
(* row is high above the floor.                                             *)

ScenarioPlans ==
  << << <<"x", "x", "x", "x", "x">>,
        <<"x", " ", " ", " ", "x">>,
        <<"x", "@", " ", "o", "x">>,
        <<"x", "x", "x", "x", "x">> >>,
     << <<"x", "x", "x", "x", "x">>,
        <<"x", "@", " ", "o", "x">>,
        <<"x", "x", "x", "x", "x">> >>,
     << <<"x", "x", "x", "x", "x", "x", "x", "x">>,
        <<"x", " ", " ", " ", " ", " ", " ", "x">>,
        <<"x", "@", " ", " ", " ", " ", "o", "x">>,
        <<"x", " ", " ", " ", " ", " ", " ", "x">>,
        <<"x", " ", " ", " ", " ", " ", " ", "x">>,
        <<"x", " ", " ", " ", " ", " ", " ", "x">>,
        <<"x", "x", "x", "x", "x", "x", "x", "x">> >> >>

MaxScenarioFrames == 14

\* frames of 20 ms and of the longest frame step
ScenarioDeltas == {2, 10}

RightHeld == Keys(FALSE, TRUE, FALSE)

ScenarioAnimate(deltaTime) ==
  /\ pc = "idle"
  /\ ~isFinished
  /\ frames < MaxScenarioFrames
  /\ animate(deltaTime, RightHeld)
  /\ UNCHANGED <<loopVars, gameVars>>

InitScenario ==
  /\ \E p \in 1..Len(ScenarioPlans) :
       InitLevel(ScenarioPlans[p]) /\ InitStartLevel(p, Some(3))
  /\ InitAnimate
  /\ InitRunLevel
  /\ query = NoQuery

NextScenario ==
  \/ \E deltaTime \in ScenarioDeltas : ScenarioAnimate(deltaTime)
  \/ PlayerMoveX
  \/ PlayerMoveY
  \/ PlayerTouch
  \/ CoinAct

\* requestAnimationFrame keeps calling frame, and a call of animate runs to
\* its end: a step that can be taken is taken
SpecScenario == InitScenario /\ [][NextScenario]_vars /\ WF_vars(NextScenario)

-----------------------------------------------------------------------------
(* Direct calls of the constructor Level(plan) with plans from a bounded    *)
(* set: two rows, the first of two characters, the second of one to         *)
(* MaxRowLen characters (a shorter or longer second row makes the plan      *)
(* ragged), any number of '@' (none makes the plan malformed).  "#" stands  *)
(* for any character that is neither an actor character nor "x" nor "!".    *)

MaxRowLen == 3

PlanChars == {"@", "o", "=", "|", "v", "x", "!", " ", "#"}

SecondRowChars == {"@", "o", "x"}

PlanInputs ==
  {<<<<a, b>>, second>> :
     a \in PlanChars, b \in PlanChars,
     second \in UNION {[1..n -> SecondRowChars] : n \in 1..MaxRowLen}}

\* new Level(plan), one call per behaviour
ConstructLevel(plan) ==
  /\ pc = "idle"
  /\ query.op = "none"
  /\ newLevel(plan)
  /\ query' = [op |-> "Level", plan |-> plan]
  /\ UNCHANGED <<pc, step, thisStep, keys, iter, idx, frames, touched, elapsed,
                 deltaArg, subSteps, acted, written, loopVars, gameVars>>

NextLevel == \E plan \in PlanInputs : ConstructLevel(plan)

SpecLevel == InitRunGame /\ [][NextLevel]_vars

-----------------------------------------------------------------------------
(* Direct calls of the pure queries obstacleAt and actorAt on a level that  *)
(* was just constructed, with arguments from bounded sets.  The queries     *)
(* change nothing of the level, so one call per behaviour covers them all.  *)

\* rectangle corners tried: quarter squares from -1/2 square to QueryMax / 4
QueryMax == 22

QueryCoords == {k * (Cell \div 4) : k \in -2..QueryMax}

\* rectangle sizes tried: those of Player, Lava and Coin, and a shrunk player
QuerySizes ==
  {Player(Vector(0, 0)).size, Lava(Vector(0, 0), "=").size,
   Coin(Vector(0, 0)).size, Vector((8 * Cell) \div 10, Cell)}

QueryObstacleAt(pos, size) ==
  /\ pc = "idle"
  /\ query.op = "none"
  /\ query' = [op |-> "obstacleAt", pos |-> pos, size |-> size,
               result |-> obstacleAt(pos, size),
               reads |-> obstacleScan(pos, size).reads]
  /\ UNCHANGED <<width, height, grid, actors, player, status, finishDelay, obj,
                 pc, step, thisStep, keys, iter, idx, frames, touched, elapsed,
                 deltaArg, subSteps, acted, written, loopVars, gameVars>>

NextObstacleAt ==
  \E x \in QueryCoords, y \in QueryCoords, size \in QuerySizes :
    QueryObstacleAt(Vector(x, y), size)

SpecObstacleAt == Init /\ [][NextObstacleAt]_vars

\* where the other actors are put relative to the player's corner: apart,
\* sharing an edge or a corner, overlapping by 1/1000 square, and well inside
PlaceDx == {-(6 * Cell) \div 10, 0, (8 * Cell) \div 10 - 1, (8 * Cell) \div 10}

PlaceDy == {-(6 * Cell) \div 10, 0, (15 * Cell) \div 10}

\* a constructed level whose actors other than the player have been moved
InitActorAt ==
  /\ \E p \in 1..Len(Plans) :
       LET objs == LevelActors(Plans[p])
           me == LevelPlayer(objs)
           places == [(1..Len(objs)) \ {me} -> PlaceDx \X PlaceDy]
       IN /\ width = LevelWidth(Plans[p])
          /\ height = LevelHeight(Plans[p])
          /\ grid = LevelGrid(Plans[p])
          /\ \E place \in places :
               obj = [i \in 1..Len(objs) |->
                        IF i = me THEN objs[i]
                        ELSE [objs[i] EXCEPT !.pos =
                                plus(objs[me].pos,
                                     Vector(place[i][1], place[i][2]))]]
          /\ actors = [i \in 1..Len(objs) |-> i]
          /\ player = me
          /\ InitStartLevel(p, Some(3))
  /\ status = "null"
  /\ finishDelay = Null
  /\ InitAnimate
  /\ InitRunLevel
  /\ query = NoQuery

QueryActorAt(actor) ==
  /\ pc = "idle"
  /\ query.op = "none"
  /\ query' = [op |-> "actorAt", actor |-> actor, result |-> actorAt(actor)]
  /\ UNCHANGED <<width, height, grid, actors, player, status, finishDelay, obj,
                 pc, step, thisStep, keys, iter, idx, frames, touched, elapsed,
                 deltaArg, subSteps, acted, written, loopVars, gameVars>>

NextActorAt == \E i \in 1..Len(actors) : QueryActorAt(actors[i])

SpecActorAt == InitActorAt /\ [][NextActorAt]_vars

-----------------------------------------------------------------------------
(* Properties of the win/loss state machine, checked under Spec             *)

\* a coin-typed actor is still in the list
coinLeft(list) == \E i \in 1..Len(list) : obj[list[i]].type = "coin"

\* the step is moveX / moveY of the player and obstacleAt reports `kind` for
\* the tentative position
moveXReports(kind) ==
  /\ pc = "forEach"
  /\ iter[idx] = player
  /\ obstacleAt(newPosX(player), obj[player].size) = kind

moveYReports(kind) ==
  /\ pc = "moveY"
  /\ obstacleAt(newPosY(player), obj[player].size) = kind

\* C1: status is write-once: once it is non-null ("won" or "lost") every later
\* step leaves it at that same value; "lost" never becomes "won" and "won"
\* never becomes "lost".
C1_StatusWriteOnce == [][status # "null" => status' = status]_vars

\* C2: a step that calls playerTouched("coin", c) removes exactly c from actors
\* (the others keep their order); if no coin is left afterwards status becomes
\* "won" and finishDelay 1 s, otherwise status and finishDelay are unchanged.
C2_CoinRemoval ==
  [][(touched' # Null /\ touched'[1] = "coin") =>
       /\ \E k \in 1..Len(actors) :
            /\ actors[k] = touched'[2]
            /\ actors' = SubSeq(actors, 1, k - 1) \o SubSeq(actors, k + 1, Len(actors))
       /\ \A i \in 1..Len(actors') : actors'[i] # touched'[2]
       /\ IF coinLeft(actors')
          THEN status' = status /\ finishDelay' = finishDelay
          ELSE status' = "won" /\ finishDelay' = Some(TimeUnit)]_vars

\* C2 witness: a coin was just removed while another coin remains, and the
\* level is still in progress.
C2_Witness ==
  /\ touched # Null
  /\ touched[1] = "coin"
  /\ coinLeft(actors)
  /\ status = "null"
  /\ Len(actors) = Len(obj) - 1

\* C3: when obstacleAt reports "lava" for the player's tentative horizontal or
\* vertical position while status is null, that very step sets status to
\* "lost" and finishDelay to 1 s; when it reports "wall" the step changes
\* neither status nor finishDelay.
C3_LavaObstacleLoses ==
  [][/\ ((moveXReports("lava") \/ moveYReports("lava")) /\ status = "null")
          => (status' = "lost" /\ finishDelay' = Some(TimeUnit))
     /\ (moveXReports("wall") \/ moveYReports("wall"))
          => UNCHANGED <<status, finishDelay>>]_vars

\* C3 witness: moveX has just been stopped by lava and the level is lost with
\* the full delay (pc = "moveY" is the position right after moveX).
C3_Witness ==
  /\ pc = "moveY"
  /\ touched = <<"lava", 0>>
  /\ status = "lost"
  /\ finishDelay = Some(TimeUnit)
  /\ elapsed = 0

\* C4: a step that calls playerTouched("lava", ...) while status is already
\* non-null leaves status, finishDelay and actors exactly as they were.
C4_LavaAfterEndIsNoOp ==
  [][(touched' # Null /\ touched'[1] = "lava" /\ status # "null") =>
       UNCHANGED <<status, finishDelay, actors>>]_vars

\* C4 witness: lava was just touched on a level whose countdown had already
\* begun, and the countdown was not restarted.
C4_Witness ==
  /\ touched # Null
  /\ touched[1] = "lava"
  /\ status # "null"
  /\ Val(finishDelay) < TimeUnit

\* C5: a level in progress is never finished; a finished level has status set
\* and finishDelay < 0, and the animate calls begun after status was set have
\* consumed strictly more than 1 s: finishDelay is never less than 1 s minus
\* that time, so exactly 1 s leaves a delay >= 0, which is not finished.
C5_FinishedOnlyAfterOneSecond ==
  /\ status = "null" => ~isFinished
  /\ isFinished => (status # "null" /\ Val(finishDelay) < 0 /\ elapsed > TimeUnit)
  /\ status # "null" => Val(finishDelay) >= TimeUnit - elapsed
  /\ (status # "null" /\ elapsed <= TimeUnit) => ~isFinished

\* C5 witness: the level is finished.
C5_Witness == isFinished

\* C6: once status is non-null finishDelay only counts down: no step raises
\* it, and the level is finished as soon as the animate calls begun after the
\* first status change have consumed more than 1 s.
C6_CountdownOnly ==
  [][status # "null" =>
       /\ Val(finishDelay') <= Val(finishDelay)
       /\ (elapsed' > TimeUnit => isFinished')]_vars

\* C7: actors is an order-preserving subsequence of the list built at
\* construction (the ids 1..n in order): nothing is added or reordered, only
\* coins are missing, and the player is always a member.
C7_ActorsSubsequence ==
  /\ \A i \in 1..Len(actors) : actors[i] \in DOMAIN obj
  /\ \A i, j \in 1..Len(actors) : i < j => actors[i] < actors[j]
  /\ \A a \in DOMAIN obj :
       (\A i \in 1..Len(actors) : actors[i] # a) => obj[a].type = "coin"
  /\ \E i \in 1..Len(actors) : actors[i] = player

\* C7 witness: a coin has been removed and an actor constructed after it is
\* still in the list.
C7_Witness ==
  /\ Len(actors) < Len(obj)
  /\ \E i \in 1..Len(actors) : actors[i] > i

-----------------------------------------------------------------------------
(* Properties of obstacleAt, checked under SpecObstacleAt                   *)

\* the rectangle of the last obstacleAt call sticks out at a side or the top
sticksOutSideOrTop ==
  \/ query.pos.x < 0
  \/ query.pos.x + query.size.x > width * Cell
  \/ query.pos.y < 0

\* ... or below the bottom
sticksOutBottom == query.pos.y + query.size.y > height * Cell

\* the grid cells <<x, y>> the rectangle of the last obstacleAt call touches
coveredCells ==
  {c \in (0..(width - 1)) \X (0..(height - 1)) :
     /\ c[1] * Cell < query.pos.x + query.size.x
     /\ (c[1] + 1) * Cell > query.pos.x
     /\ c[2] * Cell < query.pos.y + query.size.y
     /\ (c[2] + 1) * Cell > query.pos.y}

\* cell c comes before cell d in row-major order
rowMajorBefore(c, d) == c[2] < d[2] \/ (c[2] = d[2] /\ c[1] < d[1])

nonEmptyCovered == {c \in coveredCells : grid[c[2] + 1][c[1] + 1] # "null"}

\* C8: obstacleAt returns "wall" for a rectangle that sticks out at a side or
\* the top (also when it sticks out below the bottom as well), otherwise
\* "lava" when it sticks out below the bottom, both without reading the grid;
\* and it never reads a cell outside [0, width) x [0, height).
C8_BoundaryPolicy ==
  query.op = "obstacleAt" =>
    /\ sticksOutSideOrTop => (query.result = "wall" /\ query.reads = <<>>)
    /\ (~sticksOutSideOrTop /\ sticksOutBottom)
         => (query.result = "lava" /\ query.reads = <<>>)
    /\ \A k \in 1..Len(query.reads) :
         /\ query.reads[k][1] \in 0..(width - 1)
         /\ query.reads[k][2] \in 0..(height - 1)

\* C8 witness: a rectangle left of 0 and below the bottom was answered "wall".
C8_Witness ==
  /\ query.op = "obstacleAt"
  /\ query.pos.x < 0
  /\ sticksOutBottom
  /\ query.result = "wall"

\* C9: for a rectangle within the level bounds obstacleAt reads the covered
\* cells in row-major order up to the first non-empty one and returns its
\* kind; it returns none exactly when every covered cell is empty (and then it
\* has read them all).
C9_RowMajorScan ==
  (query.op = "obstacleAt" /\ ~sticksOutSideOrTop /\ ~sticksOutBottom) =>
    /\ (query.result = "none") <=> (nonEmptyCovered = {})
    /\ \A i, j \in 1..Len(query.reads) :
         i < j => rowMajorBefore(query.reads[i], query.reads[j])
    /\ IF nonEmptyCovered = {}
       THEN {query.reads[k] : k \in 1..Len(query.reads)} = coveredCells
       ELSE \E c \in nonEmptyCovered :
              /\ \A d \in nonEmptyCovered : d = c \/ rowMajorBefore(c, d)
              /\ query.result = grid[c[2] + 1][c[1] + 1]
              /\ {query.reads[k] : k \in 1..Len(query.reads)} =
                   {d \in coveredCells : d = c \/ rowMajorBefore(d, c)}

\* C9 witness: the rectangle covers a lava cell and, in a later row but an
\* earlier column, a wall cell; the answer is "lava".
C9_Witness ==
  /\ query.op = "obstacleAt"
  /\ ~sticksOutSideOrTop
  /\ ~sticksOutBottom
  /\ query.result = "lava"
  /\ \E c, d \in nonEmptyCovered :
       /\ grid[c[2] + 1][c[1] + 1] = "lava"
       /\ grid[d[2] + 1][d[1] + 1] = "wall"
       /\ c[2] < d[2]
       /\ d[1] < c[1]

-----------------------------------------------------------------------------
(* Properties of actorAt, checked under SpecActorAt                         *)

Max(a, b) == IF a > b THEN a ELSE b

\* the boxes of actors a and b have an intersection of positive area
positiveOverlap(a, b) ==
  /\ Max(obj[a].pos.x, obj[b].pos.x)
       < Min(obj[a].pos.x + obj[a].size.x, obj[b].pos.x + obj[b].size.x)
  /\ Max(obj[a].pos.y, obj[b].pos.y)
       < Min(obj[a].pos.y + obj[a].size.y, obj[b].pos.y + obj[b].size.y)

\* the boxes of a and b meet in an edge or a corner only
onlyTouching(a, b) ==
  /\ ~positiveOverlap(a, b)
  /\ Max(obj[a].pos.x, obj[b].pos.x)
       <= Min(obj[a].pos.x + obj[a].size.x, obj[b].pos.x + obj[b].size.x)
  /\ Max(obj[a].pos.y, obj[b].pos.y)
       <= Min(obj[a].pos.y + obj[a].size.y, obj[b].pos.y + obj[b].size.y)

\* C10: actorAt(a) returns the first actor in list order, other than a, whose
\* box overlaps a's box with positive area (a shared edge or corner is no
\* overlap); it never returns a and returns none when there is no such actor.
C10_FirstStrictOverlap ==
  query.op = "actorAt" =>
    LET a == query.actor
        r == query.result
        other(i) == actors[i] # a /\ positiveOverlap(a, actors[i])
    IN /\ r # a
       /\ (r = 0) <=> (\A i \in 1..Len(actors) : ~other(i))
       /\ r # 0 => \E k \in 1..Len(actors) :
                     /\ actors[k] = r
                     /\ other(k)
                     /\ \A j \in 1..(k - 1) : ~other(j)

\* C10 witness: the answer is an actor that overlaps while an actor earlier
\* in the list only shares an edge or a corner with the queried one.
C10_Witness ==
  /\ query.op = "actorAt"
  /\ query.result # 0
  /\ \E j, k \in 1..Len(actors) :
       /\ j < k
       /\ actors[k] = query.result
       /\ actors[j] # query.actor
       /\ onlyTouching(query.actor, actors[j])

-----------------------------------------------------------------------------
(* Properties of the actors' motion, checked under Spec                     *)

\* the step is the player's moveX / the player's moveY
isMoveX == pc = "forEach" /\ iter[idx] = player

isMoveY == pc = "moveY"

\* C11: moveX sets speed.x from the keys alone (-7 for left, +7 for right, 0
\* for neither or both); if the tentative position is obstructed the position
\* is unchanged and playerTouched is called with the obstacle kind and no
\* actor, otherwise the position becomes the tentative one and no touch is
\* reported.  moveX never alters speed.y or y, moveY never alters x or speed.x.
C11_MoveX ==
  [][/\ isMoveX =>
          LET this == obj[player]
              vx == CASE keys.left /\ ~keys.right -> -playerXSpeed
                      [] keys.right /\ ~keys.left -> playerXSpeed
                      [] OTHER -> 0
              tentative == Vector(this.pos.x + vx * thisStep, this.pos.y)
              obstacle == obstacleAt(tentative, this.size)
          IN /\ obj'[player].speed.x = vx
             /\ obj'[player].speed.y = this.speed.y
             /\ IF obstacle # "none"
                THEN /\ obj'[player].pos = this.pos
                     /\ touched' = <<obstacle, 0>>
                ELSE /\ obj'[player].pos = tentative
                     /\ touched' = Null
     /\ isMoveY =>
          /\ obj'[player].pos.x = obj[player].pos.x
          /\ obj'[player].speed.x = obj[player].speed.x]_vars

\* C11 witness: moveX has just been obstructed by the wall on the left with
\* only the left key held: speed.x is -7 and the wall was reported.
C11_Witness ==
  /\ pc = "moveY"
  /\ touched = <<"wall", 0>>
  /\ keys.left
  /\ ~keys.right
  /\ obj[player].speed.x = -playerXSpeed

\* C12: moveY sets speed.y to -17 exactly when the vertical move is
\* obstructed, up is held and the speed after gravity is positive; any other
\* obstructed move sets it to 0; an unobstructed move leaves it at the old
\* value plus 30 * step.  No other step changes speed.y.
C12_Jump ==
  [][/\ isMoveY =>
          LET this == obj[player]
              vy == this.speed.y + gravity * thisStep
              tentative == Vector(this.pos.x, this.pos.y + vy * thisStep)
              obstructed == obstacleAt(tentative, this.size) # "none"
          IN obj'[player].speed.y =
               IF obstructed
               THEN IF keys.up /\ vy > 0 THEN -jumpSpeed ELSE 0
               ELSE vy
     /\ ~isMoveY => obj'[player].speed.y = obj[player].speed.y]_vars

\* C12 witness: moveY was just obstructed and made the player jump.
C12_Witness ==
  /\ pc = "touch"
  /\ keys.up
  /\ touched # Null
  /\ obj[player].speed.y = -jumpSpeed

\* C13: a lava whose tentative position pos + speed * step is free moves
\* there.  Otherwise a dripping lava is put at its repeatPos with its speed
\* unchanged, and any other lava keeps its position and has its speed negated
\* on both axes.  repeatPos is the position the lava was constructed at and
\* never changes; a lava changes only in its own act.
C13_LavaAct ==
  /\ \A a \in DOMAIN obj :
       (obj[a].type = "lava" /\ obj[a].repeatPos # Null) =>
         obj[a].pos = Val(obj[a].repeatPos)
  /\ [][\A a \in DOMAIN obj :
          obj[a].type = "lava" =>
            LET this == obj[a]
                tentative == Vector(this.pos.x + this.speed.x * thisStep,
                                    this.pos.y + this.speed.y * thisStep)
            IN /\ obj'[a].repeatPos = this.repeatPos
               /\ IF pc = "forEach" /\ iter[idx] = a
                  THEN IF obstacleAt(tentative, this.size) = "none"
                       THEN obj'[a].pos = tentative /\ obj'[a].speed = this.speed
                       ELSE IF this.repeatPos # Null
                       THEN /\ obj'[a].pos = Val(this.repeatPos)
                            /\ obj'[a].speed = this.speed
                       ELSE /\ obj'[a].pos = this.pos
                            /\ obj'[a].speed = Vector(-this.speed.x, -this.speed.y)
                  ELSE obj'[a].pos = this.pos /\ obj'[a].speed = this.speed]_vars

\* C13 witness: a dripping lava that has fallen and is back at its repeatPos
\* still falling, while a bouncing lava moves against its initial direction.
C13_Witness ==
  /\ frames > 0
  /\ \E a \in DOMAIN obj :
       /\ obj[a].type = "lava"
       /\ obj[a].repeatPos # Null
       /\ obj[a].pos = Val(obj[a].repeatPos)
       /\ obj[a].speed.y > 0
  /\ \E b \in DOMAIN obj :
       /\ obj[b].type = "lava"
       /\ obj[b].repeatPos = Null
       /\ (obj[b].speed.x < 0 \/ obj[b].speed.y < 0)

-----------------------------------------------------------------------------
(* Properties of animate's sub-stepping, checked under SpecAnimate          *)

RECURSIVE Sum(_)
Sum(seq) == IF seq = <<>> THEN 0 ELSE Head(seq) + Sum(Tail(seq))

\* the sub-steps taken so far are positive, at most maxStep, all but the last
\* exactly maxStep, and account for the deltaTime consumed so far
subStepsAccount ==
  /\ \A i \in 1..Len(subSteps) :
       /\ subSteps[i] > 0
       /\ subSteps[i] <= maxStep
       /\ i < Len(subSteps) => subSteps[i] = maxStep
  /\ IF pc = "idle"
     THEN IF deltaArg > 0
          THEN Sum(subSteps) = deltaArg
          ELSE subSteps = <<>> /\ acted = <<>>
     ELSE /\ deltaArg > 0
          /\ subSteps # <<>>
          /\ Sum(subSteps) <= deltaArg
          /\ Sum(subSteps) + (step - thisStep) = deltaArg

\* C14: an animate call with deltaTime > 0 terminates, after sub-steps that
\* are each > 0 and <= 0.05 s, all but the last exactly 0.05 s, and that sum
\* to deltaTime; a call with deltaTime <= 0 runs no sub-step and changes no
\* actor.
C14_SubSteps ==
  /\ []subStepsAccount
  /\ [][(pc = "idle" /\ frames' # frames /\ deltaArg' <= 0) =>
          (pc' = "idle" /\ obj' = obj /\ actors' = actors)]_vars
  /\ (pc # "idle") ~> (pc = "idle")

\* C14 witness: a call with deltaTime 0.13 s has returned after the three
\* sub-steps 0.05, 0.05 and 0.03.
C14_Witness ==
  /\ pc = "idle"
  /\ deltaArg = 2 * maxStep + 3
  /\ subSteps = <<maxStep, maxStep, 3>>

-----------------------------------------------------------------------------
(* Properties of the forEach over the actors, checked under Spec            *)

\* the actors of a log of act calls, in call order
actorsOf(log) == [i \in 1..Len(log) |-> log[i].actor]

\* the step is the last of a sub-step: animate executes step -= thisStep
endsSubStep == pc # "idle" /\ step' # step

\* C15 as stated: in each sub-step act is called exactly once on every actor
\* of the list, in list order, and never on an actor that has already been
\* removed from Level.actors.
C15_ActOnlyOnLiveActors ==
  /\ [](\A i \in 1..Len(acted) : acted[i].live)
  /\ [][endsSubStep => actorsOf(acted') = iter]_vars

\* C15 amended: in each sub-step act is called exactly once on every actor
\* that was in Level.actors when the sub-step began, in list order, with the
\* same thisStep and keys; the array that is iterated does not change during
\* the sub-step, so an actor removed during a sub-step (a collected coin) can
\* still act later in that sub-step, and never in a later one.
C15_ActOncePerSnapshot ==
  /\ [](\A i \in 1..Len(acted) : ~acted[i].live => obj[acted[i].actor].type = "coin")
  /\ [][/\ endsSubStep => actorsOf(acted') = iter
        /\ (pc' = "forEach" /\ idx' = 1) => iter' = actors'
        /\ (pc # "idle" /\ step' = step) =>
             (iter' = iter /\ thisStep' = thisStep /\ keys' = keys)
        /\ (pc # "idle" /\ pc' # "idle") => keys' = keys]_vars

\* C15 witness: a sub-step has ended in which a coin acted after the player
\* had collected it.
C15_Witness ==
  /\ pc = "idle"
  /\ \E i, j \in 1..Len(acted) :
       /\ i < j
       /\ acted[i].actor = player
       /\ obj[acted[j].actor].type = "coin"
       /\ ~acted[j].live

-----------------------------------------------------------------------------
(* Properties of runGame, checked under SpecRunGame                         *)

\* the step is the call of the callback with the status of a finished level
callsAndThen == pc = "idle" /\ isFinished /\ andThenCalls = <<>>

\* the index of the last plan
lastLevel == Len(Plans) - 1

\* after the step the level is a newly constructed Level of plan number n
\* that has not been animated, shown by a new display with a new loop
freshLevel(n) ==
  LET objs == LevelActors(Plans[n + 1])
  IN /\ grid' = LevelGrid(Plans[n + 1])
     /\ obj' = [i \in 1..Len(objs) |-> objs[i]]
     /\ actors' = [i \in 1..Len(objs) |-> i]
     /\ status' = "null"
     /\ finishDelay' = Null
     /\ frames' = 0
     /\ pc' = "idle"
     /\ running' = "yes"
     /\ rafLoops' = <<FALSE>>
     /\ displayed'
     /\ started' = started + 1

\* C16: the lives are a number throughout the run, 3 at the start; a loss
\* with lives > 0 restarts the same level with one life fewer, a loss with 0
\* lives restarts level 0 with 3 lives, and a win (but the last) starts the
\* next level with the lives unchanged.
C16_LivesAcrossLevels ==
  /\ [](lives # Null /\ Val(lives) \in 0..3)
  /\ [][callsAndThen =>
          IF status = "lost"
          THEN IF lives # Null /\ Val(lives) > 0
               THEN levelN' = levelN /\ lives' = Some(Val(lives) - 1)
               ELSE lives = Some(0) /\ levelN' = 0 /\ lives' = Some(3)
          ELSE IF levelN < lastLevel
          THEN levelN' = levelN + 1 /\ lives' = lives
          ELSE levelN' = levelN /\ lives' = lives]_vars

-----------------------------------------------------------------------------
(* Properties of runLevel and runAnimation, checked under SpecRunLevel      *)

\* the step is the start of a frame callback / the delivery of an ESC keydown
isFrame == inFrame = 0 /\ event' = "frame"

isEscKey == inFrame = 0 /\ event' = "esc"

\* C18: andThen is called at most once, with the level's status "won" or
\* "lost", in the frame whose animate call left the level finished; from
\* then on the display is cleared, both key handlers are removed, no loop is
\* left, and no step (frame or key) changes the level or calls animate.
C18_AndThenOnce ==
  /\ [](/\ Len(andThenCalls) <= 1
        /\ andThenCalls # <<>> =>
             /\ andThenCalls[1] = status
             /\ status \in {"won", "lost"}
             /\ isFinished
             /\ ~displayed
             /\ ~escListener
             /\ ~arrowsListener
             /\ rafLoops = <<>>
        /\ (isFinished /\ inFrame = 0) => andThenCalls # <<>>)
  /\ [][/\ (andThenCalls = <<>> /\ andThenCalls' # <<>>) =>
             (inFrame # 0 /\ pc = "idle" /\ isFinished /\ frames' = frames)
        /\ andThenCalls # <<>> =>
             UNCHANGED <<levelVars, andThenCalls, running, rafLoops>>]_vars

\* C18 witness: the level was won, andThen was called, and ESC was pressed
\* afterwards.
C18_Witness ==
  /\ andThenCalls = <<"won">>
  /\ event = "esc"
  /\ rafLoops = <<>>

\* what ESC does in each state of `running`, and what being paused means
escAndPaused ==
  /\ running = "no" => UNCHANGED levelVars
  /\ isEscKey => UNCHANGED levelVars
  /\ (isEscKey /\ escListener /\ running = "yes") =>
       (running' = "pausing" /\ rafLoops' = rafLoops)
  /\ (isEscKey /\ escListener /\ running = "no") =>
       (running' = "yes" /\ rafLoops' = <<FALSE>>)
  /\ (isEscKey /\ escListener /\ running = "pausing") =>
       (running' = "yes" /\ rafLoops' = rafLoops)

\* C19 as stated: after ESC was pressed while running, the next frame stops
\* the loop without calling animate; while paused the level does not change;
\* ESC while paused resumes, ESC on a pending pause cancels it.
C19_PauseProtocol ==
  [][/\ (isFrame /\ running = "pausing") =>
          (running' = "no" /\ rafLoops' = <<>> /\ UNCHANGED levelVars)
     /\ escAndPaused]_vars

\* C19 amended: with a pause pending, a frame never calls animate; it stops
\* the loop when the loop's lastTime is set, and when it is the first frame
\* of a loop (lastTime null, at start or just after a resume) it only sets
\* lastTime, so that the following frame stops the loop.  While paused there
\* is no loop and the level does not change; ESC while paused resumes with
\* one new loop, ESC on a pending pause cancels it.
C19_PauseProtocolFirstFrame ==
  /\ [](running = "no" <=> (rafLoops = <<>> /\ andThenCalls = <<>>))
  /\ [][/\ (isFrame /\ running = "pausing") =>
             /\ UNCHANGED levelVars
             /\ IF rafLoops[1]
                THEN running' = "no" /\ rafLoops' = <<>>
                ELSE running' = "pausing" /\ rafLoops' = <<TRUE>>
        /\ escAndPaused]_vars

\* C19 witness: the game was paused after some frames and ESC has resumed it.
C19_Witness ==
  /\ event = "esc"
  /\ running = "yes"
  /\ rafLoops = <<FALSE>>
  /\ frames > 0
  /\ andThenCalls = <<>>

\* C20: the step passed to animate by a frame is at least 0 and at most
\* 0.1 s, so that animate runs at most two sub-steps; the first frame of a
\* loop (after the start or a resume) calls nothing and only sets lastTime.
C20_StepCapped ==
  /\ [](/\ deltaArg >= 0
        /\ deltaArg <= 2 * maxStep
        /\ 10 * deltaArg <= TimeUnit
        /\ Len(subSteps) <= 2)
  /\ [][(isFrame /\ rafLoops # <<>> /\ ~rafLoops[1]) =>
          (rafLoops' = <<TRUE>> /\ UNCHANGED <<levelVars, running>>)]_vars

\* C20 witness: a frame whose gap was above 100 ms has run animate with
\* 0.1 s, in two sub-steps of 0.05 s.
C20_Witness ==
  /\ inFrame # 0
  /\ pc = "idle"
  /\ 10 * deltaArg = TimeUnit
  /\ subSteps = <<maxStep, maxStep>>

-----------------------------------------------------------------------------
(* Tunnelling, checked under SpecTall                                       *)

\* a rectangle of the given size moved from corner p to corner q has a
\* non-empty grid cell entirely between its old and its new place, along the
\* vertical or the horizontal axis
tunnels(p, q, size) ==
  \E cx \in 0..(width - 1), cy \in 0..(height - 1) :
    /\ size.x > 0
    /\ size.y > 0
    /\ fieldAt(cx, cy) # "null"
    /\ \/ /\ cx * Cell < p.x + size.x
          /\ p.x < (cx + 1) * Cell
          /\ \/ p.y + size.y <= cy * Cell /\ (cy + 1) * Cell <= q.y
             \/ q.y + size.y <= cy * Cell /\ (cy + 1) * Cell <= p.y
       \/ /\ cy * Cell < p.y + size.y
          /\ p.y < (cy + 1) * Cell
          /\ \/ p.x + size.x <= cx * Cell /\ (cx + 1) * Cell <= q.x
             \/ q.x + size.x <= cx * Cell /\ (cx + 1) * Cell <= p.x

\* C21: no sub-step accepts a move of the player (moveX, moveY) or of a
\* moving lava (its act, when it moves on) from one side of a non-empty grid
\* cell to a rectangle entirely on the other side of it.
C21_NoTunnelling ==
  [][/\ (isMoveX \/ isMoveY) =>
          ~tunnels(obj[player].pos, obj'[player].pos, obj[player].size)
     /\ \A a \in DOMAIN obj :
          (obj[a].type = "lava" /\ pc = "forEach" /\ iter[idx] = a
             /\ obj'[a].speed = obj[a].speed /\ obj[a].repeatPos = Null) =>
            ~tunnels(obj[a].pos, obj'[a].pos, obj[a].size)]_vars

-----------------------------------------------------------------------------
(* The losing shrink, checked under Spec.  A run without the shrink differs *)
(* from the run with it, up to their first different answer, only in the    *)
(* player's pos.y and size.y: the shrink moves the top edge down by what    *)
(* size.y has lost and leaves the bottom edge in place.                     *)

\* what size.y has lost since the player was constructed
shrunkBy == Player(Vector(0, 0)).size.y - obj[player].size.y

\* the player's size and a corner as they are in the run without the shrink
unshrunkSize == [obj[player].size EXCEPT !.y = @ + shrunkBy]

unshrunk(pos) == [pos EXCEPT !.y = @ - shrunkBy]

\* the actors with the player as it is in the run without the shrink
unshrunkObj ==
  [obj EXCEPT ![player].pos = unshrunk(@), ![player].size = unshrunkSize]

\* C22: the shrink is cosmetic: every obstacleAt call of moveX and moveY
\* gives the answer it gives for the rectangle without the shrink, and the
\* actorAt call of Player.act finds a coin exactly when it finds that coin
\* for the rectangle without the shrink, so that status and the removals of
\* actors are the same with and without it.
C22_ShrinkIsCosmetic ==
  [][/\ isMoveX =>
          obstacleAt(newPosX(player), obj[player].size)
            = obstacleAt(unshrunk(newPosX(player)), unshrunkSize)
     /\ isMoveY =>
          obstacleAt(newPosY(player), obj[player].size)
            = obstacleAt(unshrunk(newPosY(player)), unshrunkSize)
     /\ pc = "touch" =>
          LET found == actorAt(player)
              foundUnshrunk == actorAtIn(actors, unshrunkObj, player)
              isCoin(a) == a # 0 /\ obj[a].type = "coin"
          IN (isCoin(found) \/ isCoin(foundUnshrunk)) => found = foundUnshrunk]_vars

-----------------------------------------------------------------------------
(* Properties of the constructor Level(plan), checked under SpecLevel       *)

\* the plan square (0-based x, y) an actor was constructed for, from its pos
spawnCell(a) ==
  IF a.type = "player" THEN <<Floor(a.pos.x), Floor(a.pos.y + Cell \div 2)>>
  ELSE <<Floor(a.pos.x), Floor(a.pos.y)>>

\* every row of the plan is as long as the first
rectangular(plan) == \A r \in 1..Len(plan) : Len(plan[r]) = Len(plan[1])

hasPlayerChar(plan) ==
  \E r \in 1..Len(plan) : \E c \in 1..Len(plan[r]) :
    c <= Len(plan[1]) /\ plan[r][c] = "@"

\* C23: Level(plan) has a grid of plan.length rows by plan[0].length columns;
\* a character '@', 'o', '=', '|', 'v' gives exactly one actor of its kind
\* for that square and an empty background cell, any other character gives
\* no actor and the cell wall for 'x', lava for '!', empty otherwise; actors
\* are in row-major order of their squares; player is the (first) actor made
\* for '@'; status and finishDelay are null.  (Stated for plans whose rows
\* have equal width.)
C23_LevelConstruction ==
  (query.op = "Level" /\ rectangular(query.plan)) =>
    LET plan == query.plan
        here(x, y) == {a \in DOMAIN obj : spawnCell(obj[a]) = <<x, y>>}
        index(a) == spawnCell(obj[a])[2] * width + spawnCell(obj[a])[1]
    IN /\ height = Len(plan)
       /\ width = Len(plan[1])
       /\ Len(grid) = height
       /\ \A y \in 1..height : Len(grid[y]) = width
       /\ \A y \in 1..height : \A x \in 1..width :
            LET ch == plan[y][x]
            IN IF ch \in {"@", "o", "=", "|", "v"}
               THEN /\ Cardinality(here(x - 1, y - 1)) = 1
                    /\ \A a \in here(x - 1, y - 1) :
                         /\ obj[a].ch = ch
                         /\ obj[a].type = (IF ch = "@" THEN "player"
                                           ELSE IF ch = "o" THEN "coin" ELSE "lava")
                    /\ grid[y][x] = "null"
               ELSE /\ here(x - 1, y - 1) = {}
                    /\ grid[y][x] = (IF ch = "x" THEN "wall"
                                     ELSE IF ch = "!" THEN "lava" ELSE "null")
       /\ DOMAIN obj = 1..Len(actors)
       /\ \A i \in 1..Len(actors) : actors[i] = i
       /\ \A i, j \in 1..Len(actors) : i < j => index(actors[i]) < index(actors[j])
       /\ hasPlayerChar(plan) =>
            /\ player \in DOMAIN obj
            /\ obj[player].ch = "@"
            /\ \A a \in DOMAIN obj : obj[a].ch = "@" => index(player) <= index(a)
       /\ status = "null"
       /\ finishDelay = Null

\* C23 witness: a level built from a plan with a coin before the player in
\* row-major order, a lava and a wall.
C23_Witness ==
  /\ query.op = "Level"
  /\ query.plan = << <<"o", "=">>, <<"@", "x">> >>
  /\ player = 3

\* C24: a Level is only ever produced from a plan that has a '@' and rows of
\* equal width (a malformed plan makes the constructor fail instead); no
\* Level has an undefined player.
C24_MalformedPlanRejected ==
  query.op = "Level" =>
    /\ hasPlayerChar(query.plan)
    /\ rectangular(query.plan)
    /\ player # 0

-----------------------------------------------------------------------------
\* C25: Vector values are immutable: plus and times return a new Vector (in
\* the model they are values computed from their arguments) and no step of
\* moveX, moveY, Player.act, Lava.act or Coin.act assigns to the x or y of an
\* existing Vector.
C25_VectorsImmutable == written = {}

-----------------------------------------------------------------------------
\* the player's rectangle lies in empty background
playerFree ==
  player # 0 => obstacleAt(obj[player].pos, obj[player].size) = "none"

\* every lava's rectangle lies in empty background
lavaFree ==
  \A a \in DOMAIN obj :
    obj[a].type = "lava" => obstacleAt(obj[a].pos, obj[a].size) = "none"

\* C27: in every reachable state of a level whose player spawned in an
\* unobstructed rectangle, obstacleAt(player.pos, player.size) reports no
\* obstacle, also during the losing shrink; and obstacleAt(lava.pos,
\* lava.size) reports no obstacle for every moving lava, also right after a
\* dripping lava was reset to its spawn position.  (The premise holds of
\* every plan the specifications start from, except the second of
\* ScenarioPlans: their initial states satisfy playerFree.)
C27_NeverInsideBackground == playerFree /\ lavaFree

-----------------------------------------------------------------------------
\* the coins among the actors of a list
coinsIn(list) == {list[i] : i \in {j \in 1..Len(list) : obj[list[j]].type = "coin"}}

\* C28: whenever status is 'won' actors holds no coin; status becomes 'won'
\* only in a step that removes a coin from actors; a level constructed
\* without any coin never has status 'won'.
C28_WonOnlyByLastCoin ==
  /\ [](status = "won" => coinsIn(actors) = {})
  /\ [][(status # "won" /\ status' = "won") =>
          /\ coinsIn(actors') # coinsIn(actors)
          /\ coinsIn(actors') \subseteq coinsIn(actors)]_vars
  /\ []((\A a \in DOMAIN obj : obj[a].type # "coin") => status # "won")

\* C28 witness: the level is won, its coin is no longer in actors
C28_Witness ==
  /\ status = "won"
  /\ \E a \in DOMAIN obj : obj[a].type = "coin"
  /\ coinsIn(actors) = {}

-----------------------------------------------------------------------------
\* C29: the number of live runAnimation loops of a runLevel session is 1
\* while running is 'yes' or 'pausing' and the level has not finished, and 0
\* when running is 'no' or the level has finished (the isFinished branch of
\* animation has run): never two loops, never a running level without a loop.
C29_OneLoop ==
  Len(rafLoops) = (IF running = "no" \/ andThenCalls # <<>> THEN 0 ELSE 1)

\* C29 witness: ESC has just resumed a paused level: one new loop
C29_Witness ==
  /\ event = "esc"
  /\ running = "yes"
  /\ frames > 0
  /\ rafLoops = <<FALSE>>
  /\ andThenCalls = <<>>

-----------------------------------------------------------------------------
\* C30: under runLevel's loop (frame steps of at most 0.1 s, no animate call
\* once isFinished holds) the player's size.y is strictly positive in every
\* state; size.y changes only in the last step of a Player.act that leaves
\* status 'lost', by the length of the sub-step; in total less than the
\* initial height is removed.
C30_SizeStaysPositive ==
  /\ [](player # 0 => (obj[player].size.y > 0 /\ shrunkBy < Player(Vector(0, 0)).size.y))
  /\ [][(player # 0 /\ obj'[player].size.y # obj[player].size.y) =>
          /\ pc = "touch"
          /\ status' = "lost"
          /\ obj'[player].size.y = obj[player].size.y - thisStep * (Cell \div TimeUnit)]_vars

\* C30 witness: a lost level has been abandoned after the player shrank by
\* more than one square
C30_Witness ==
  /\ andThenCalls = <<"lost">>
  /\ shrunkBy > Cell
  /\ obj[player].size.y > 0

-----------------------------------------------------------------------------
(* The scenario of C26, as predicates of the state a level is constructed   *)
(* in, where every actor is at its spawn position                           *)

\* the level is bordered by walls
bordered ==
  /\ \A x \in 1..width : grid[1][x] = "wall" /\ grid[height][x] = "wall"
  /\ \A y \in 1..height : grid[y][1] = "wall" /\ grid[y][width] = "wall"

\* the only coin lies on the player's row, to the right, with only empty
\* squares (no wall, no lava, no actor) between them
coinToTheRight ==
  /\ player # 0
  /\ \E c \in DOMAIN obj :
       /\ obj[c].type = "coin"
       /\ \A d \in DOMAIN obj : obj[d].type = "coin" => d = c
       /\ spawnCell(obj[c])[2] = spawnCell(obj[player])[2]
       /\ spawnCell(obj[c])[1] > spawnCell(obj[player])[1]
       /\ \A x \in (spawnCell(obj[player])[1] + 1)..(spawnCell(obj[c])[1] - 1) :
            /\ grid[spawnCell(obj[player])[2] + 1][x + 1] = "null"
            /\ \A a \in DOMAIN obj : spawnCell(obj[a]) # <<x, spawnCell(obj[player])[2]>>

\* the squares under the player's row, from the player to the coin, are walls
floorBelow ==
  \A c \in DOMAIN obj :
    obj[c].type = "coin" =>
      \A x \in spawnCell(obj[player])[1]..spawnCell(obj[c])[1] :
        fieldAt(x, spawnCell(obj[player])[2] + 1) = "wall"

noLava == \A a \in DOMAIN obj : obj[a].type # "lava"

=============================================================================
